---- MODULE Spec2Model ----
(***************************************************************************)
(* MailKit (src/mailkit/main.py) and its proxied IMAP transport            *)
(* (src/mailkit/proxification_v2.py) as a state machine.                   *)
(*                                                                         *)
(* A client is constructed (MailKit.__init__, which runs                   *)
(* connect_and_login), scanned (MailKit.scrap), entered (__enter__, which  *)
(* connects again) and left (__exit__).  Every action is one whole call.   *)
(* What the network, the proxy and the IMAP server answer is drawn with \E *)
(* from small sets; what the code does with the answers is computed by the *)
(* operators below, which follow the source statement by statement.  The   *)
(* libraries the code calls (imap_tools, imaplib, tenacity, PySocks,       *)
(* pydantic, logging, datetime) are modelled by what they do at the call:  *)
(* tenacity runs the body again after an exception, up to the attempt      *)
(* limit, and then raises RetryError; MailBox(host) connects when          *)
(* constructed; folder.set raises when the SELECT is refused;              *)
(* mailbox.fetch is a generator that searches at the first step and        *)
(* fetches one message per step; AND() without criteria raises;            *)
(* subtracting an aware datetime from datetime.now() raises TypeError;     *)
(* logout raises on a closed socket.                                       *)
(* Strings the code inspects (addresses, proxy types, bodies, keywords)    *)
(* are tuples of one-character strings.                                    *)
(***************************************************************************)
EXTENDS Integers, Sequences, FiniteSets, TLC

VARIABLES
    u,             \* self.u: the address given to the constructor
    proxy,         \* self.proxy: <<>> for None, <<cfg>> for the caller's ProxyConfig
    mailbox,       \* self.mailbox: None, or the index in sessions of the held MailBox
    login_status,  \* self.login_status
    sessions,      \* every IMAP session this client opened, in order of creation
    server,        \* the account on the server: folder name -> sequence of messages
    phase,         \* "new" before MailKit(...), "live" after
    handlers,      \* number of handlers attached to the 'MailKit' logger
    last           \* what the most recent call did and how it ended

vars == <<u, proxy, mailbox, login_status, sessions, server, phase, handlers, last>>

\* None where the code holds an Optional[str]: a tuple that is no string
None == <<"None">>
\* None where the code holds an object: no index, no folder
NoMailbox == 0
NoFolder == "None"

(***************************************************************************)
(* Bounds of the model.                                                    *)
(***************************************************************************)
\* the socket fails on its first 0..MaxSockFails connection attempts, or on all
MaxSockFails == 3
\* the server rejects the first 0..MaxRejects logins, or all of them
MaxRejects == 3
\* number of names of the folder list that a scan visits
NumFolders == 2
\* number of sessions one client opens (construction and scoped entries)
MaxSessions == 2

(***************************************************************************)
(* Program constants.                                                      *)
(***************************************************************************)
ConnectAttempts == 3       \* @retry(stop=stop_after_attempt(3)) on connect_and_login
ScrapAttempts == 3         \* @retry(stop=stop_after_attempt(3)) on scrap
SocketAttempts == 3        \* ... on SocksIMAP4._create_socket
SSLSocketAttempts == 3     \* ... on SocksIMAP4SSL._create_socket
OpenAttempts == 3          \* ... on SocksIMAP4SSL.open
ClientAttempts == 3        \* ... on MailBoxProxy._get_mailbox_client
PortMin == 1                \* proxy_port: Field(..., ge=1, ...)
PortMax == 65535            \* proxy_port: Field(..., le=65535)
SOCKS4 == 1                \* socks.PROXY_TYPE_SOCKS4
SOCKS5 == 2                \* socks.SOCKS5
HTTP == 3                  \* socks.HTTP

(***************************************************************************)
(* Python strings as tuples of characters.                                 *)
(***************************************************************************)
\* bool(x) of an Optional[str]: None and "" are falsy
Truthy(x) == x # None /\ x # <<>>

\* str.upper() on the letters that occur in the model
UpperChar(c) ==
    CASE c = "h" -> "H" [] c = "t" -> "T" [] c = "p" -> "P"
      [] c = "s" -> "S" [] c = "o" -> "O" [] c = "c" -> "C" [] c = "k" -> "K"
      [] OTHER -> c

upper(s) == [i \in 1..Len(s) |-> UpperChar(s[i])]

\* str.lower() on the letters that occur in the model
LowerChar(c) ==
    CASE c = "H" -> "h" [] c = "T" -> "t" [] c = "P" -> "p"
      [] c = "S" -> "s" [] c = "O" -> "o" [] c = "C" -> "c" [] c = "K" -> "k"
      [] OTHER -> c

lower(s) == [i \in 1..Len(s) |-> LowerChar(s[i])]

\* str.split('@'): the pieces between the separators, at least one piece
RECURSIVE split(_)
split(s) ==
    IF \A i \in 1..Len(s) : s[i] # "@" THEN <<s>>
    ELSE LET k == CHOOSE i \in 1..Len(s) :
                      s[i] = "@" /\ \A j \in 1..(i - 1) : s[j] # "@"
         IN <<SubSeq(s, 1, k - 1)>> \o split(SubSeq(s, k + 1, Len(s)))

\* x in y for strings: x occurs in y as a contiguous run
Contains(y, x) ==
    \E i \in 0..(Len(y) - Len(x)) : SubSeq(y, i + 1, i + Len(x)) = x

(***************************************************************************)
(* providers: the domain -> IMAP host table.                               *)
(***************************************************************************)
providers ==
    ( <<"g","m","a","i","l",".","c","o","m">>             :> "imap.gmail.com" )
 @@ ( <<"y","a","h","o","o",".","c","o","m">>             :> "imap.mail.yahoo.com" )
 @@ ( <<"m","a","i","l",".","c","o","m">>                 :> "imap.mail.com" )
 @@ ( <<"g","m","x",".","c","o","m">>                     :> "imap.gmx.com" )
 @@ ( <<"m","a","i","l",".","r","u">>                     :> "imap.mail.ru" )
 @@ ( <<"r","a","m","b","l","e","r",".","r","u">>         :> "imap.rambler.ru" )
 @@ ( <<"a","u","t","o","r","a","m","b","l","e","r",".","r","u">> :> "imap.rambler.ru" )
 @@ ( <<"o","u","t","l","o","o","k",".","c","o","m">>     :> "outlook.office365.com" )
 @@ ( <<"h","o","t","m","a","i","l",".","c","o","m">>     :> "outlook.office365.com" )
 @@ ( <<"a","o","l",".","c","o","m">>                     :> "imap.aol.com" )

(***************************************************************************)
(* ProxyConfig.  proxy_type is declared str; connect_and_login overwrites  *)
(* it with an int, so a value carries which of the two it is.              *)
(***************************************************************************)
StrVal(s) == [isstr |-> TRUE, s |-> s, n |-> 0]
IntVal(n) == [isstr |-> FALSE, s |-> <<>>, n |-> n]

ProxyTypeInputs ==
    { <<"H","T","T","P">>, <<"h","t","t","p">>,
      <<"S","O","C","K","S","5">>, <<"s","o","c","k","s","5">>,
      <<"S","O","C","K","S","4">> }

\* the ports a caller passes: both boundaries, one inside, and outside
PortInputs == {0 - 1, 0, PortMin, 8080, PortMax, PortMax + 1}

\* the fields of a ProxyConfig that the program reads or checks
ProxyConfig(t, p) == [proxy_type |-> StrVal(t), proxy_port |-> p]

\* ProxyConfig(proxy_type=t, proxy_port=p, ...) raises pydantic's
\* ValidationError: proxy_type is any str, proxy_port has ge=1, le=65535
ValidationError(t, p) == ~(p >= PortMin /\ p <= PortMax)

(***************************************************************************)
(* What the network answers during one connect: the first sockFails        *)
(* connection attempts fail ("all": every one), the TLS handshake and the  *)
(* server greeting succeed or not, the first rejects logins are rejected   *)
(* ("all": every one; "error": login raises some other exception),         *)
(* folder.set('INBOX') returns a true value, a false value, or raises, and *)
(* the certificate the server presents is valid for its host name or not.  *)
(***************************************************************************)
ConnEnv ==
    [ sockFails : (0..MaxSockFails) \cup {-1},
      tls : BOOLEAN,
      greet : BOOLEAN,
      rejects : (0..MaxRejects) \cup {-1, -2},
      inbox : {"true", "false", "raise"},
      cert : BOOLEAN ]

\* -1 stands for "every attempt"
SockFails(env, k) == env.sockFails = -1 \/ k <= env.sockFails
LoginResult(env, k) ==
    IF env.rejects = -2 THEN "error"
    ELSE IF env.rejects = -1 \/ k <= env.rejects THEN "rejected"
    ELSE "ok"

\* one IMAP command sent on the session: SELECT f, SEARCH in f, FETCH of uid n
\* in f, and whether the server carried it out
Cmd(c, f, n, ok) == [c |-> c, f |-> f, n |-> n, ok |-> ok]

\* counters of one call: connection attempts, TLS handshakes, retry sleeps
\* and logins sent
NoCount == [socks |-> 0, tls |-> 0, sleeps |-> 0, logins |-> 0]

(***************************************************************************)
(* proxification_v2.py: four retry-wrapped layers, each calling the next.  *)
(* Each operator is the tenacity loop around the method body; a is the     *)
(* attempt number.  ok = FALSE is the RetryError raised after the last     *)
(* attempt.  A result that is used more than once is bound as the element  *)
(* of a singleton set, so that it is computed once.                        *)
(***************************************************************************)
\* The value of a singleton set
The(S) == CHOOSE x \in S : TRUE

\* proxification_v2.py 78 and main.py 193-201: MailBoxProxy's ssl_context
\* defaults to None and connect_and_login passes none (<<>> for None)
ssl_context == <<>>

\* ssl._create_stdlib_context(), the stdlib's name for
\* ssl._create_unverified_context: no certificate required, no host name check
_create_stdlib_context == [verify_mode |-> "CERT_NONE", check_hostname |-> FALSE]

\* proxification_v2.py 51-54: the context SocksIMAP4SSL keeps
SSLContext(given) == IF given = <<>> THEN _create_stdlib_context ELSE given[1]

\* line 63, ssl_context.wrap_socket(sock, server_hostname=host): the handshake;
\* a context that verifies refuses a certificate that is not valid for the host
wrap_socket(ctx, env) ==
    /\ env.tls
    /\ (ctx.verify_mode = "CERT_REQUIRED" /\ ctx.check_hostname) => env.cert

RECURSIVE SocksIMAP4_create_socket(_, _, _)
SocksIMAP4_create_socket(env, c, a) ==
    The({ IF ~SockFails(env, c1.socks) THEN [c |-> c1, ok |-> TRUE]
          ELSE IF a >= SocketAttempts THEN [c |-> c1, ok |-> FALSE]
          ELSE SocksIMAP4_create_socket(env, [c1 EXCEPT !.sleeps = @ + 1], a + 1)
        : c1 \in {[c EXCEPT !.socks = @ + 1]} })

RECURSIVE SocksIMAP4SSL_create_socket(_, _, _)
SocksIMAP4SSL_create_socket(env, c, a) ==
    The({ The({ IF sock.ok /\ wrap_socket(SSLContext(ssl_context), env)
                THEN [c |-> c1, ok |-> TRUE]
                ELSE IF a >= SSLSocketAttempts THEN [c |-> c1, ok |-> FALSE]
                ELSE SocksIMAP4SSL_create_socket(env, [c1 EXCEPT !.sleeps = @ + 1], a + 1)
              : c1 \in {IF sock.ok THEN [sock.c EXCEPT !.tls = @ + 1] ELSE sock.c} })
        : sock \in {SocksIMAP4_create_socket(env, c, 1)} })

RECURSIVE SocksIMAP4SSL_open(_, _, _)
SocksIMAP4SSL_open(env, c, a) ==
    The({ IF r.ok THEN r
          ELSE IF a >= OpenAttempts THEN r
          ELSE SocksIMAP4SSL_open(env, [r.c EXCEPT !.sleeps = @ + 1], a + 1)
        : r \in {SocksIMAP4SSL_create_socket(env, c, 1)} })

RECURSIVE _get_mailbox_client(_, _, _)
_get_mailbox_client(env, c, a) ==
    The({ IF r.ok /\ env.greet THEN [c |-> r.c, ok |-> TRUE]
          ELSE IF a >= ClientAttempts THEN [c |-> r.c, ok |-> FALSE]
          ELSE _get_mailbox_client(env, [r.c EXCEPT !.sleeps = @ + 1], a + 1)
        : r \in {SocksIMAP4SSL_open(env, c, 1)} })

\* MailBoxProxy(...): BaseMailBox.__init__ asks _get_mailbox_client for the client
MailBoxProxy(env, c) == _get_mailbox_client(env, c, 1)

\* MailBox(provider): one connection, one handshake, one greeting, no retry
MailBox(env, c) ==
    LET c1 == [c EXCEPT !.socks = @ + 1]
    IN  IF SockFails(env, c1.socks) THEN [c |-> c1, ok |-> FALSE]
        ELSE [c |-> [c1 EXCEPT !.tls = @ + 1], ok |-> env.tls /\ env.greet]

(***************************************************************************)
(* MailKit.connect_and_login (main.py 172-224).                            *)
(***************************************************************************)
HTTPStr == <<"H","T","T","P">>
SOCKS5Str == <<"S","O","C","K","S","5">>

\* lines 181-191: the proxy type is translated in place; raise = the ValueError
ResolveProxyType(cfg) ==
    LET t == cfg.proxy_type
    IN  IF t.isstr
        THEN [cfg |-> IF upper(t.s) = HTTPStr THEN [cfg EXCEPT !.proxy_type = IntVal(HTTP)]
                      ELSE IF upper(t.s) = SOCKS5Str
                           THEN [cfg EXCEPT !.proxy_type = IntVal(SOCKS5)]
                      ELSE cfg,
              raise |-> FALSE]
        ELSE [cfg |-> cfg, raise |-> t.n \notin {HTTP, SOCKS5}]

\* proxification_v2.py 15-17: the protocol each proxy_type string stands for
PROXY_TYPES ==
    ( <<"s","o","c","k","s","4">> :> SOCKS4 )
 @@ ( <<"s","o","c","k","s","5">> :> SOCKS5 )
 @@ ( <<"h","t","t","p">>         :> HTTP )

\* main.py 195: the p_proxy_type that connect_and_login passes to MailBoxProxy
p_proxy_type == HTTPStr

\* A session as the client holds it.  proxy_type is SocksIMAP4.proxy_type
\* (proxification_v2.py 26), the protocol spoken to the proxy; 0 without proxy.
\* verify_mode is that of the context the TLS handshake was made with; the
\* handshake of a direct session is imaplib's.
Session(proxied) ==
    [proxied |-> proxied, auth |-> FALSE, selected |-> NoFolder, open |-> TRUE,
     proxy_type |-> IF proxied THEN PROXY_TYPES[lower(p_proxy_type)] ELSE 0,
     verify_mode |-> IF proxied THEN SSLContext(ssl_context).verify_mode ELSE "imaplib"]

\* The client state a call reads and writes, and the record a call leaves.
Self == [proxy |-> proxy, mailbox |-> mailbox, login_status |-> login_status,
         sessions |-> sessions]

Outcome(st, c, cmds, ret) ==
    [st |-> st, c |-> c, cmds |-> cmds, ret |-> ret, raised |-> FALSE,
     connected |-> FALSE, login |-> "none", inbox |-> "none"]

\* a false return of folder.set taken for a true one
InboxSelectedAlways(res) == TRUE

\* line 206: if self.mailbox.folder.set('INBOX')
InboxSelected(res) == res = "true"

\* the table lookup skipped: every domain taken as supported
InProvidersAny(dom) == TRUE

\* line 178: if parsed_user in providers
InProviders(dom) == dom \in DOMAIN providers

\* lines 205-213, once self.mailbox holds a connected client
LoginAndSelect(st, env, c) ==
    LET c1 == [c EXCEPT !.logins = @ + 1]
        res == LoginResult(env, c.logins + 1)
        m == st.mailbox
        authed == [st EXCEPT !.sessions[m].auth = TRUE]
        sel == <<Cmd("select", "INBOX", 0, env.inbox = "true")>>
    IN  IF res = "rejected"
        THEN \* except MailboxLoginError
             [Outcome([st EXCEPT !.login_status = FALSE], c1, <<>>, "False")
                 EXCEPT !.connected = TRUE, !.login = res]
        ELSE IF res = "error"
        THEN \* except Exception
             [Outcome(st, c1, <<>>, "False") EXCEPT !.connected = TRUE, !.login = res]
        ELSE IF env.inbox = "raise"
        THEN \* folder.set raised: except Exception
             [Outcome(authed, c1, sel, "False")
                 EXCEPT !.connected = TRUE, !.login = res, !.inbox = env.inbox]
        ELSE IF InboxSelected(env.inbox)
        THEN [Outcome([authed EXCEPT !.sessions[m].selected = "INBOX",
                                     !.login_status = TRUE], c1, sel, "True")
                 EXCEPT !.connected = TRUE, !.login = res, !.inbox = env.inbox]
        ELSE [Outcome([authed EXCEPT !.login_status = FALSE], c1, sel, "False")
                 EXCEPT !.connected = TRUE, !.login = res, !.inbox = env.inbox]

\* lines 174-224: one execution of the method body
connect_and_login_body(st, env, c) ==
    LET parsed_user == split(u)
    IN  IF ~(Len(parsed_user) > 1)
        THEN Outcome(st, c, <<>>, "None")
        ELSE
        IF ~InProviders(parsed_user[2])
        THEN Outcome([st EXCEPT !.login_status = FALSE], c, <<>>, "False")
        ELSE
        IF st.proxy # <<>>
        THEN The({ IF rt.raise THEN Outcome(st, c, <<>>, "False")
                   ELSE The({ IF ~cl.ok
                              THEN Outcome([st EXCEPT !.proxy = <<rt.cfg>>], cl.c, <<>>, "False")
                              ELSE LoginAndSelect(
                                     [st EXCEPT !.proxy = <<rt.cfg>>,
                                                !.sessions = Append(@, Session(TRUE)),
                                                !.mailbox = Len(st.sessions) + 1],
                                     env, cl.c)
                            : cl \in {MailBoxProxy(env, c)} })
                 : rt \in {ResolveProxyType(st.proxy[1])} })
        ELSE The({ IF ~cl.ok THEN Outcome(st, cl.c, <<>>, "False")
                   ELSE LoginAndSelect(
                          [st EXCEPT !.sessions = Append(@, Session(FALSE)),
                                     !.mailbox = Len(st.sessions) + 1],
                          env, cl.c)
                 : cl \in {MailBox(env, c)} })

\* line 172: the tenacity loop around the body; a is the attempt number
RECURSIVE connect_and_login(_, _, _, _)
connect_and_login(st, env, c, a) ==
    The({ IF ~r.raised THEN r @@ [attempts |-> a]
          ELSE IF a >= ConnectAttempts THEN [r EXCEPT !.ret = "RetryError"] @@ [attempts |-> a]
          ELSE connect_and_login(r.st, env, [r.c EXCEPT !.sleeps = @ + 1], a + 1)
        : r \in {connect_and_login_body(st, env, c)} })

(***************************************************************************)
(* The account on the server.  A message carries what the search and the   *)
(* post-filters read: subject, sender, the \Seen flag, its age in minutes  *)
(* (now - date), its calendar day, whether its date carries a UTC offset   *)
(* (msg.date is then an aware datetime), and its text and HTML bodies.     *)
(***************************************************************************)
Msg(subject, from_, seen, age, day, aware, text, html) ==
    [subject |-> subject, from_ |-> from_, seen |-> seen, age |-> age,
     day |-> day, aware |-> aware, text |-> text, html |-> html]

\* lines 259-260
AllFolders ==
    << "INBOX", "SENT", "DRAFTS", "JUNK", "TRASH", "ARCHIVE", "Trash", "DraftBox",
       "Spam", "Sentbox", "Archive", "Deleted", "Drafts", "Inbox", "Junk", "Notes",
       "Outbox", "Sent" >>

\* the list with its first two names exchanged
foldersSwapped == <<AllFolders[2], AllFolders[1]>> \o SubSeq(AllFolders, 3, NumFolders)

folders == SubSeq(AllFolders, 1, NumFolders)

FolderNames == { AllFolders[i] : i \in 1..Len(AllFolders) }

Mailboxes ==
    { [f \in FolderNames |->
          CASE f = "INBOX" ->
                 << Msg(<<"i","n","v">>, <<"a">>, FALSE, 0, 1, FALSE, <<"i","n","v","4">>, <<>>),
                    Msg(<<"i","n","v">>, <<"a">>, TRUE, 4, 1, FALSE, <<>>, <<"r","e","f">>),
                    Msg(<<"i","n","v">>, <<"b">>, FALSE, 10, 2, FALSE, <<"x">>, <<"i","n","v">>) >>
            [] f = "SENT" ->
                 << Msg(<<"i","n","v">>, <<"a">>, FALSE, 4, 1, FALSE, <<"i","n","v">>, <<>>) >>
            [] OTHER ->
                 << Msg(<<"i","n","v">>, <<"a">>, FALSE, 0, 1, FALSE, <<"i","n","v">>, <<>>) >>],
      [f \in FolderNames |->
          CASE f = "INBOX" ->
                 << Msg(<<"i","n","v">>, <<"a">>, FALSE, 4, 1, TRUE, <<"i","n","v">>, <<>>),
                    Msg(<<"i","n","v">>, <<"a">>, FALSE, 0, 1, FALSE, <<"i","n","v">>, <<>>) >>
            [] f = "SENT" ->
                 << Msg(<<"r","e">>, <<"a">>, FALSE, 10, 2, FALSE, <<"r","e","f">>, <<>>) >>
            [] OTHER -> << >>] }

(***************************************************************************)
(* MailKit.scrap (main.py 226-284).                                        *)
(***************************************************************************)
\* The arguments of one scrap call.  time_diff and specific_date are <<>>
\* for None and <<n>> for a timedelta of n minutes / a datetime on day n.
ScrapArgs ==
    [ scrapsub : {None, <<"i","n","v">>},
      sender : {None, <<"a">>},
      keyword : {None, <<"i","n","v">>},
      seen : {"None", "False"},
      time_diff : {<<>>, <<5>>},
      specific_date : {<<>>, <<1>>} ]

\* What the server answers for one folder of one scan: everything works;
\* the SELECT is refused; the search raises; the fetch of the second message
\* raises.  imap_tools reports a refused SELECT by raising
\* MailboxFolderSelectError from folder.set, never by its return value.
FolderOutcomes == {"ok", "select_raise", "search_raise", "fetch_raise"}

\* lines 250-256: the keys of search_criteria
search_criteria(args) ==
    [seen |-> args.seen,
     subject |-> IF Truthy(args.scrapsub) THEN args.scrapsub ELSE None,
     from_ |-> IF Truthy(args.sender) THEN args.sender ELSE None]

\* AND(**search_criteria) refuses an empty criteria set (ValueError)
EmptyCriteria(cr) == cr.seen = "None" /\ cr.subject = None /\ cr.from_ = None

\* the server's SEARCH: SEEN/UNSEEN, SUBJECT and FROM are all substring tests
Matches(msg, cr) ==
    /\ cr.seen = "None" \/ (cr.seen = "True") = msg.seen
    /\ cr.subject = None \/ Contains(msg.subject, cr.subject)
    /\ cr.from_ = None \/ Contains(msg.from_, cr.from_)

RECURSIVE uids(_, _, _)
uids(msgs, cr, i) ==
    IF i > Len(msgs) THEN <<>>
    ELSE (IF Matches(msgs[i], cr) THEN <<i>> ELSE <<>>) \o uids(msgs, cr, i + 1)

\* msg.text or msg.html
Body(msg) == IF msg.text # <<>> THEN msg.text ELSE msg.html

\* lines 266-272, for one fetched message: "raise" when datetime.now() (naive)
\* minus an aware msg.date raises TypeError, "skip" on continue, "keep" on append
PostFilter(msg, args) ==
    LET td == args.time_diff
        sd == args.specific_date
    IN  IF td # <<>> /\ td[1] # 0 /\ msg.aware THEN "raise"
        ELSE IF td # <<>> /\ td[1] # 0 /\ msg.age > td[1] THEN "skip"
        ELSE IF sd # <<>> /\ msg.day # sd[1] THEN "skip"
        ELSE IF Truthy(args.keyword) /\ ~Contains(Body(msg), args.keyword) THEN "skip"
        ELSE "keep"

Soup(f, n, msg) == [folder |-> f, uid |-> n, body |-> Body(msg)]

\* What one scan accumulates: soups, the IMAP commands issued, the server's
\* messages (fetch sets \Seen) and the client's sessions (selected folder).
ScanAcc(st, srv) == [soups |-> <<>>, cmds |-> <<>>, srv |-> srv, sessions |-> st.sessions]

\* the message sent without touching its flags (a fetch with BODY.PEEK)
MarkSeenNot(msg) == msg

\* line 264, mark_seen=True: the server sets \Seen on a message it sends
MarkSeen(msg) == [msg EXCEPT !.seen = TRUE]

\* lines 265-274: the loop over the generator mailbox.fetch returns, which
\* fetches (and marks seen) one message per iteration.  ids are the uids not
\* yet fetched, pos the position of the next one.  Ends when the generator
\* is exhausted or when an exception leaves the loop.
RECURSIVE FetchLoop(_, _, _, _, _, _)
FetchLoop(acc, f, ids, pos, o, args) ==
    IF ids = <<>> THEN acc
    ELSE IF o = "fetch_raise" /\ pos = 2
    THEN [acc EXCEPT !.cmds = Append(@, Cmd("fetch", f, Head(ids), FALSE))]
    ELSE The({ The({ IF verdict = "raise" THEN got
                     ELSE IF verdict = "skip"
                     THEN FetchLoop(got, f, Tail(ids), pos + 1, o, args)
                     ELSE FetchLoop([got EXCEPT !.soups = Append(@, Soup(f, n, acc.srv[f][n]))],
                                    f, Tail(ids), pos + 1, o, args)
                   : got \in {[acc EXCEPT !.cmds = Append(@, Cmd("fetch", f, n, TRUE)),
                                          !.srv[f][n] = MarkSeen(@)]} })
             : n \in {Head(ids)}, verdict \in {PostFilter(acc.srv[f][Head(ids)], args)} })

\* a refused SELECT reported by a false return value instead of an exception
FolderSetQuiet(sess, o) ==
    IF ~sess.auth \/ ~sess.open \/ o = "select_raise" THEN "false" ELSE "true"

\* folder.set(i): a session that is not authenticated, or is logged out, has
\* every SELECT refused ("raise"); otherwise the server's answer
FolderSet(sess, o) ==
    IF ~sess.auth \/ ~sess.open \/ o = "select_raise" THEN "raise" ELSE "true"

\* lines 262-276: one iteration of the folder loop; every exception raised
\* inside it is swallowed by "except BaseException: pass".  m is self.mailbox.
\* The return value of folder.set is not looked at: after a false one the
\* fetch is still called, with no folder selected.
VisitFolder(acc, m, f, o, args) ==
    The({ The({ IF set = "raise" THEN a1
                ELSE IF EmptyCriteria(search_criteria(args)) THEN a1
                ELSE IF set = "false" \/ o = "search_raise"
                THEN [a1 EXCEPT !.cmds = Append(@, Cmd("search", a1.sessions[m].selected,
                                                       0, FALSE))]
                ELSE FetchLoop([a1 EXCEPT !.cmds = Append(@, Cmd("search", f, 0, TRUE))],
                               f, uids(a1.srv[f], search_criteria(args), 1), 1, o, args)
              : a1 \in {[acc EXCEPT !.cmds = Append(@, Cmd("select", f, 0, set = "true")),
                                    !.sessions[m].selected =
                                        IF set = "true" THEN f ELSE NoFolder]} })
        : set \in {FolderSet(acc.sessions[m], o)} })

RECURSIVE FolderLoop(_, _, _, _, _)
FolderLoop(acc, m, i, fenv, args) ==
    IF i > Len(folders) THEN acc
    ELSE The({ FolderLoop(nxt, m, i + 1, fenv, args)
             : nxt \in {VisitFolder(acc, m, folders[i], fenv[i], args)} })

\* not any([scrapsub, sender, keyword])
NoQuery(args) == ~(Truthy(args.scrapsub) \/ Truthy(args.sender) \/ Truthy(args.keyword))

ScrapOutcome(st, srv, cmds, soups, ret, raised) ==
    [st |-> st, srv |-> srv, cmds |-> cmds, soups |-> soups, ret |-> ret,
     raised |-> raised]

\* lines 244-284: one execution of the method body
scrap_body(st, srv, args, fenv) ==
    IF st.mailbox # NoMailbox
    THEN IF NoQuery(args)
         THEN ScrapOutcome(st, srv, <<>>, <<>>, "None", "ValueError")
         ELSE The({ ScrapOutcome([st EXCEPT !.sessions = acc.sessions], acc.srv, acc.cmds,
                                 acc.soups,
                                 IF acc.soups # <<>> THEN "soups" ELSE "None", "none")
                  : acc \in {FolderLoop(ScanAcc(st, srv), st.mailbox, 1, fenv, args)} })
    ELSE ScrapOutcome(st, srv, <<>>, <<>>, "None", "none")

\* line 226: the tenacity loop around the body; a is the attempt number and
\* sleeps the number of waits so far
RECURSIVE scrap(_, _, _, _, _, _)
scrap(st, srv, args, fenv, sleeps, a) ==
    The({ IF r.raised = "none" THEN r @@ [attempts |-> a, sleeps |-> sleeps]
          ELSE IF a >= ScrapAttempts
          THEN [r EXCEPT !.raised = "RetryError"] @@ [attempts |-> a, sleeps |-> sleeps]
          ELSE scrap(r.st, r.srv, args, fenv, sleeps + 1, a + 1)
        : r \in {scrap_body(st, srv, args, fenv)} })

(***************************************************************************)
(* The state machine.                                                      *)
(***************************************************************************)
\* "u@gmail.com", "u@mail.ru", "ugmail.com", "u@example.org", "u@b@gmail.com", "u@"
Addresses ==
    { <<"u","@","g","m","a","i","l",".","c","o","m">>,
      <<"u","@","m","a","i","l",".","r","u">>,
      <<"u","g","m","a","i","l",".","c","o","m">>,
      <<"u","@","e","x","a","m","p","l","e",".","o","r","g">>,
      <<"u","@","b","@","g","m","a","i","l",".","c","o","m">>,
      <<"u","@">> }

Proxies == {<<>>} \cup { <<ProxyConfig(t, 8080)>> : t \in ProxyTypeInputs }

NoArgs == [scrapsub |-> None, sender |-> None, keyword |-> None, seen |-> "None",
           time_diff |-> <<>>, specific_date |-> <<>>]

NoEnv == [sockFails |-> 0, tls |-> TRUE, greet |-> TRUE, rejects |-> 0, inbox |-> "true",
          cert |-> TRUE]

\* the record a call leaves in last
Last(op) ==
    [op |-> op, attempts |-> 0, sleeps |-> 0, socks |-> 0, tls |-> 0, logins |-> 0,
     cmds |-> <<>>, ret |-> "None", raised |-> "none", connected |-> FALSE,
     login |-> "none", inbox |-> "none", env |-> NoEnv, args |-> NoArgs,
     soups |-> <<>>, before |-> <<>>, cfg |-> <<>>, logout |-> "none"]

InitWith(A, P) ==
    /\ u \in A
    /\ proxy \in P
    /\ server \in Mailboxes
    /\ mailbox = NoMailbox
    /\ login_status = FALSE
    /\ sessions = <<>>
    /\ phase = "new"
    /\ handlers = 0
    /\ last = Last("none")

\* setup_logging (lines 139-170): a console and a file handler are added when
\* the logger has none
setup_logging(h) == IF h = 0 THEN 2 ELSE h

\* clear_handlers (lines 286-291): every handler is closed and removed
clear_handlers(h) == 0

\* MailKit.__init__ (lines 109-124): the logger is reset and set up, the
\* fields are set, then connect_and_login runs
Construct(E) ==
    /\ phase = "new"
    /\ \E env \in E :
         \E r \in {connect_and_login([Self EXCEPT !.mailbox = NoMailbox,
                                                  !.login_status = FALSE],
                                     env, NoCount, 1)} :
             /\ proxy' = r.st.proxy
             /\ mailbox' = r.st.mailbox
             /\ login_status' = r.st.login_status
             /\ sessions' = r.st.sessions
             /\ last' = [Last("init") EXCEPT
                            !.attempts = r.attempts, !.sleeps = r.c.sleeps,
                            !.socks = r.c.socks, !.tls = r.c.tls, !.logins = r.c.logins,
                            !.cmds = r.cmds, !.ret = r.ret,
                            !.raised = IF r.raised THEN "RetryError" ELSE "none",
                            !.connected = r.connected, !.login = r.login,
                            !.inbox = r.inbox, !.env = env]
    /\ phase' = "live"
    /\ handlers' = The({ setup_logging(IF h = 0 THEN setup_logging(h) ELSE h)
                        : h \in {clear_handlers(handlers)} })
    /\ UNCHANGED <<u, server>>

\* MailKit.scrap, called on a constructed client with arguments from A and
\* server answers from F.  before keeps the account as the scan found it.
ScrapCall(A, F) ==
    /\ phase = "live"
    /\ \E args \in A, fenv \in F :
         \E r \in {scrap(Self, server, args, fenv, 0, 1)} :
             /\ sessions' = r.st.sessions
             /\ server' = r.srv
             /\ last' = [Last("scrap") EXCEPT
                            !.attempts = r.attempts, !.sleeps = r.sleeps,
                            !.cmds = r.cmds, !.ret = r.ret, !.raised = r.raised,
                            !.args = args, !.soups = r.soups, !.before = <<server>>]
    /\ UNCHANGED <<u, proxy, mailbox, login_status, phase, handlers>>

\* One scan per client is explored here: a scan leaves the client's fields
\* alone and changes the account only through the \Seen flags, which the
\* accounts of Mailboxes already vary.
Scrap ==
    /\ last.op = "init"
    /\ ScrapCall(ScrapArgs, [1..NumFolders -> FolderOutcomes])

\* The caller builds the ProxyConfig before the client (main, lines 330-340):
\* a ValidationError leaves the caller without a config.
MakeProxyConfig ==
    /\ phase = "new"
    /\ last.op = "none"
    /\ \E t \in ProxyTypeInputs, p \in PortInputs :
         /\ proxy' = IF ValidationError(t, p) THEN <<>> ELSE <<ProxyConfig(t, p)>>
         /\ last' = [Last("config") EXCEPT
                        !.raised = IF ValidationError(t, p) THEN "ValidationError"
                                   ELSE "none",
                        !.cfg = <<[proxy_type |-> t, proxy_port |-> p]>>]
    /\ UNCHANGED <<u, mailbox, login_status, sessions, server, phase, handlers>>

\* MailKit.__enter__ (lines 293-303): connect_and_login runs again on the
\* client as it is
Enter(E) ==
    /\ phase = "live"
    /\ Len(sessions) < MaxSessions
    /\ \E env \in E :
         \E r \in {connect_and_login(Self, env, NoCount, 1)} :
             /\ proxy' = r.st.proxy
             /\ mailbox' = r.st.mailbox
             /\ login_status' = r.st.login_status
             /\ sessions' = r.st.sessions
             /\ last' = [Last("enter") EXCEPT
                            !.attempts = r.attempts, !.sleeps = r.c.sleeps,
                            !.socks = r.c.socks, !.tls = r.c.tls, !.logins = r.c.logins,
                            !.cmds = r.cmds, !.ret = r.ret,
                            !.raised = IF r.raised THEN "RetryError" ELSE "none",
                            !.connected = r.connected, !.login = r.login,
                            !.inbox = r.inbox, !.env = env]
    /\ UNCHANGED <<u, server, phase, handlers>>

\* what the server answers to LOGOUT: BYE, or the command fails
LogoutAnswers == {"bye", "error"}

\* self.mailbox.logout() (line 323): imaplib leaves the authenticated state
\* first; the command fails on a closed socket or when the server does not
\* answer BYE, and the socket is shut down only after BYE
logout(sess, ans) ==
    IF sess.open /\ ans = "bye"
    THEN [sess |-> [sess EXCEPT !.open = FALSE, !.auth = FALSE, !.selected = NoFolder],
          raise |-> FALSE]
    ELSE [sess |-> [sess EXCEPT !.auth = FALSE, !.selected = NoFolder], raise |-> TRUE]

\* the exception of logout is let through instead of being logged
LogoutUncaught(raise) == IF raise THEN "error" ELSE "none"

\* lines 324-325: except Exception: the error is logged, nothing is raised
LogoutCaught(raise) == "none"

\* MailKit.__exit__ (lines 305-326)
Exit ==
    /\ phase = "live"
    /\ \E ans \in LogoutAnswers :
         IF mailbox # NoMailbox
         THEN \E r \in {logout(sessions[mailbox], ans)} :
                /\ sessions' = [sessions EXCEPT ![mailbox] = r.sess]
                /\ last' = [Last("exit") EXCEPT
                               !.logout = IF r.raise THEN "caught" ELSE "bye",
                               !.raised = LogoutCaught(r.raise)]
                /\ handlers' = IF LogoutCaught(r.raise) = "none"
                               THEN clear_handlers(handlers) ELSE handlers
         ELSE /\ sessions' = sessions
              /\ last' = Last("exit")
              /\ handlers' = clear_handlers(handlers)
    /\ UNCHANGED <<u, proxy, mailbox, login_status, server, phase>>

(***************************************************************************)
(* SpecConnect: construction under every answer of the network.            *)
(***************************************************************************)
InitConnect == InitWith(Addresses, Proxies)

ConstructAny == Construct(ConnEnv)

NextConnect == ConstructAny

SpecConnect == InitConnect /\ [][NextConnect]_vars

(***************************************************************************)
(* Spec: construction followed by a scan.  The network answers of the      *)
(* construction are the ones that leave different clients: no connection;  *)
(* a connection with the login rejected or failed; a login with INBOX      *)
(* selected, refused or failing.                                           *)
(***************************************************************************)
\* "u@gmail.com", "ugmail.com", "u@"
ScanAddresses ==
    { <<"u","@","g","m","a","i","l",".","c","o","m">>,
      <<"u","g","m","a","i","l",".","c","o","m">>,
      <<"u","@">> }

ScanProxies == { <<>>, <<ProxyConfig(<<"s","o","c","k","s","5">>, 8080)>> }

ScanConnEnv ==
    { e \in ConnEnv :
        /\ e.tls /\ e.greet /\ e.cert
        /\ e.sockFails \in {0, -1}
        /\ e.rejects \in {0, -1, -2}
        /\ (e.sockFails = -1 \/ e.rejects # 0) => e.inbox = "true"
        /\ e.sockFails = -1 => e.rejects = 0 }

Init == InitWith(ScanAddresses, ScanProxies)

ConstructScan == Construct(ScanConnEnv)

Next == ConstructScan \/ Scrap

Spec == Init /\ [][Next]_vars

(***************************************************************************)
(* SpecLife: the life of one client.  The caller may build a ProxyConfig,  *)
(* constructs the client, and then enters it (with ... as), scans and      *)
(* leaves it in any order.                                                 *)
(***************************************************************************)
\* "u@gmail.com", "ugmail.com"
LifeAddresses ==
    { <<"u","@","g","m","a","i","l",".","c","o","m">>,
      <<"u","g","m","a","i","l",".","c","o","m">> }

\* scrap(scrapsub='inv') and scrap()
LifeScrapArgs ==
    { [NoArgs EXCEPT !.scrapsub = <<"i","n","v">>], NoArgs }

\* every folder answers, or the first one refuses the SELECT
LifeFolderEnv ==
    { [i \in 1..NumFolders |-> "ok"],
      [i \in 1..NumFolders |-> IF i = 1 THEN "select_raise" ELSE "ok"] }

InitLife == InitWith(LifeAddresses, {<<>>})

ConstructLife == Construct(ScanConnEnv)

EnterLife == Enter(ScanConnEnv)

ScrapLife == ScrapCall(LifeScrapArgs, LifeFolderEnv)

NextLife == MakeProxyConfig \/ ConstructLife \/ EnterLife \/ ScrapLife \/ Exit

SpecLife == InitLife /\ [][NextLife]_vars

(***************************************************************************)
(* Properties.  The helpers below say what an address and a scan are in    *)
(* the words of the specification, without using the operators above.      *)
(***************************************************************************)
AtPositions(a) == { i \in 1..Len(a) : a[i] = "@" }

HasAt(a) == AtPositions(a) # {}

\* the text after the first '@', up to the next '@' or the end
DomainOf(a) ==
    LET first == CHOOSE i \in AtPositions(a) : \A j \in AtPositions(a) : i <= j
        later == { i \in AtPositions(a) : i > first }
        stop == IF later = {} THEN Len(a)
                ELSE (CHOOSE i \in later : \A j \in later : i <= j) - 1
    IN  SubSeq(a, first + 1, stop)

Resolvable(a) == HasAt(a) /\ DomainOf(a) \in DOMAIN providers

Constructed == last.op = "init"
Scanned == last.op = "scrap"

\* every network call a construction made
NetCalls == last.socks + last.tls + last.logins + Len(last.cmds)

\* C1: construction never raises, and when it finishes login_status is true
\* exactly when a client was connected (self.mailbox holds it), the server
\* accepted the login and folder.set('INBOX') returned a true value.
C1_FlagIffAllSucceeded ==
    Constructed =>
        /\ last.raised = "none"
        /\ login_status = ( /\ mailbox # NoMailbox
                            /\ LoginResult(last.env, 1) = "ok"
                            /\ last.env.inbox = "true" )

C1_Witness ==
    /\ Constructed
    /\ login_status
    /\ proxy # <<>>
    /\ last.socks = 3

\* C2: a rejected login is retried: rejected every time, construction makes
\* exactly 3 connect+login attempts and ends with the flag false; rejected
\* first and accepted on the second or third, it ends with the flag true.
C2_RejectedLoginRetried ==
    (Constructed /\ last.connected) =>
        /\ last.env.rejects = -1 =>
              last.attempts = 3 /\ last.logins = 3 /\ ~login_status /\ last.raised = "none"
        /\ (last.env.rejects \in {1, 2} /\ last.env.inbox = "true") => login_status

\* C3: direct or proxied, a socket that fails on the first two connection
\* attempts and succeeds on the third gives exactly 3 connection attempts and
\* an established session.
C3_ThirdAttemptConnects ==
    ( /\ Constructed
      /\ Resolvable(u)
      /\ last.env.sockFails = 2 /\ last.env.tls /\ last.env.greet ) =>
        last.socks = 3 /\ mailbox # NoMailbox

\* C4: a socket that fails on every attempt is tried exactly 3 times by one
\* construction, through the whole stack of retry-wrapped operations.
C4_ThreeAttemptsNoFourth ==
    ( /\ Constructed
      /\ Resolvable(u)
      /\ proxy # <<>>
      /\ last.env.sockFails = -1 ) =>
        last.socks = 3 /\ mailbox = NoMailbox

\* C5: scrap with no subject, no sender and no keyword fails with an error
\* and sends nothing, in every state of the client.
C5_EmptyQueryRejected ==
    (Scanned /\ NoQuery(last.args)) =>
        last.raised # "none" /\ last.cmds = <<>>

\* C6: the missing-criteria error is not retried: one execution of the check,
\* no wait, and the caller gets the validation error itself.
C6_ValidationNotRetried ==
    (Scanned /\ NoQuery(last.args) /\ mailbox # NoMailbox) =>
        last.attempts = 1 /\ last.sleeps = 0 /\ last.raised = "ValueError"

C8_UnauthenticatedScanSendsNothing ==
    (Scanned /\ ~login_status /\ ~NoQuery(last.args)) =>
        last.ret = "None" /\ last.raised = "none" /\ last.cmds = <<>>

\* the SELECTs a scan sent, in order
Selects == SelectSeq(last.cmds, LAMBDA x : x.c = "select")

\* folder f succeeded in the last scan: its SELECT and its SEARCH were carried
\* out and none of its FETCHes failed
FolderSucceeded(f) ==
    /\ \E i \in 1..Len(last.cmds) : last.cmds[i] = Cmd("select", f, 0, TRUE)
    /\ \E i \in 1..Len(last.cmds) : last.cmds[i] = Cmd("search", f, 0, TRUE)
    /\ \A i \in 1..Len(last.cmds) :
          (last.cmds[i].c = "fetch" /\ last.cmds[i].f = f) => last.cmds[i].ok

\* the account as the last scan found it
Before == last.before[1]

\* message n of folder f satisfies the search criteria of the last scan
Searched(f, n) ==
    LET msg == Before[f][n]
        a == last.args
    IN  /\ a.seen = "None" \/ (a.seen = "True") = msg.seen
        /\ Truthy(a.scrapsub) => Contains(msg.subject, a.scrapsub)
        /\ Truthy(a.sender) => Contains(msg.from_, a.sender)

\* message n of folder f is in the result of the last scan
Returned(f, n) ==
    \E i \in 1..Len(last.soups) : last.soups[i].folder = f /\ last.soups[i].uid = n

\* a scan that passed both preconditions: criteria given, client authenticated
ScanRan == Scanned /\ ~NoQuery(last.args) /\ login_status /\ mailbox # NoMailbox

\* C9: whatever folders fail, a scan that passed its preconditions does not
\* raise, visits every folder of the list, and returns every message of a
\* folder that succeeded that the search finds and the post-filters keep.
C9_FolderResilience ==
    ScanRan =>
        /\ last.raised = "none"
        /\ Len(Selects) = Len(folders)
        /\ \A i \in 1..Len(folders) : Selects[i].f = folders[i]
        /\ \A i \in 1..Len(folders) : \A n \in 1..Len(Before[folders[i]]) :
              ( /\ FolderSucceeded(folders[i])
                /\ Searched(folders[i], n)
                /\ PostFilter(Before[folders[i]][n], last.args) = "keep" )
              => Returned(folders[i], n)

\* message n of folder f was fetched by the last scan
Fetched(f, n) ==
    \E i \in 1..Len(last.cmds) : last.cmds[i] = Cmd("fetch", f, n, TRUE)

\* the date filters of the specification exclude the message
DateExcluded(msg, a) ==
    \/ a.time_diff # <<>> /\ msg.age > a.time_diff[1]
    \/ a.specific_date # <<>> /\ msg.day # a.specific_date[1]

\* C10: without a keyword, a fetched message is left out of the result exactly
\* when the time window or the specific date excludes it, and every message
\* the search finds in a folder that succeeded is fetched and considered.
C10_DateFilters ==
    (ScanRan /\ last.args.keyword = None) =>
        \A i \in 1..Len(folders) : \A n \in 1..Len(Before[folders[i]]) :
            /\ Fetched(folders[i], n) =>
                  (Returned(folders[i], n) <=> ~DateExcluded(Before[folders[i]][n], last.args))
            /\ (FolderSucceeded(folders[i]) /\ Searched(folders[i], n)) =>
                  Fetched(folders[i], n)

\* C11: when a keyword is given (and no date filter), a fetched message is in
\* the result exactly when the keyword occurs in its text body or in its HTML
\* body.
C11_KeywordInTextOrHtml ==
    ( /\ ScanRan
      /\ Truthy(last.args.keyword)
      /\ last.args.time_diff = <<>> /\ last.args.specific_date = <<>> ) =>
        \A i \in 1..Len(folders) : \A n \in 1..Len(Before[folders[i]]) :
            Fetched(folders[i], n) =>
                ( Returned(folders[i], n) <=>
                    \/ Contains(Before[folders[i]][n].text, last.args.keyword)
                    \/ Contains(Before[folders[i]][n].html, last.args.keyword) )

\* C12: every session opened through a proxy speaks to the proxy the protocol
\* that the ProxyConfig names: SOCKS5 for a type "socks5" in any letter case,
\* HTTP CONNECT for a type "http".
C12_TunnelIsConfigType ==
    [][ (Len(sessions') > Len(sessions) /\ proxy # <<>>) =>
            LET t == proxy[1].proxy_type
                opened == sessions'[Len(sessions')]
            IN  /\ (t.isstr /\ upper(t.s) = SOCKS5Str) => opened.proxy_type = SOCKS5
                /\ (t.isstr /\ upper(t.s) = HTTPStr) => opened.proxy_type = HTTP
      ]_vars

\* the ProxyConfig the caller just tried to build
Built == last.op = "config"

\* C13: building a ProxyConfig succeeds exactly when the port lies in
\* 1..65535 and the type is HTTP or SOCKS5 in any letter case; otherwise it
\* fails with a validation error.
C13_ProxyConfigValidated ==
    Built =>
        ( last.raised = "none" <=>
            /\ last.cfg[1].proxy_port \in 1..65535
            /\ upper(last.cfg[1].proxy_type) \in {HTTPStr, SOCKS5Str} )

\* C14: every __exit__ returns without raising, attempts the logout exactly
\* when the client holds a session, removes the log handlers and leaves the
\* client's fields alone; an __exit__ that follows another one leaves the
\* same state: the same fields, no handler, and no session open again.
C14_CloseNeverRaisesIdempotent ==
    [][ last'.op = "exit" =>
            /\ last'.raised = "none"
            /\ (mailbox # NoMailbox) <=> (last'.logout # "none")
            /\ handlers' = 0
            /\ mailbox' = mailbox /\ login_status' = login_status /\ proxy' = proxy
            /\ Len(sessions') = Len(sessions)
            /\ last.op = "exit" =>
                  /\ handlers' = handlers
                  /\ \A i \in 1..Len(sessions) : sessions'[i].open => sessions[i].open
      ]_vars

\* a second __exit__: the logout on the session the first one closed fails
\* and is caught
C14_Witness ==
    /\ last.op = "exit"
    /\ mailbox # NoMailbox
    /\ ~sessions[mailbox].open
    /\ last.logout = "caught"
    /\ last.raised = "none"

\* the sessions of the client that are connected and not logged out
OpenSessions == { i \in 1..Len(sessions) : sessions[i].open }

\* C15: at most one session of the client is open at any time, and after an
\* __exit__ whose logout was answered no session of the client is open.
C15_OneSessionAllReleased ==
    /\ Cardinality(OpenSessions) <= 1
    /\ (last.op = "exit" /\ last.logout = "bye") => OpenSessions = {}

\* C16: in a scan, every SEARCH and every FETCH is sent for the folder whose
\* SELECT was the last SELECT before it, and that SELECT succeeded.
C16_SearchOnlyInSelectedFolder ==
    Scanned =>
        \A j \in 1..Len(last.cmds) :
            last.cmds[j].c \in {"search", "fetch"} =>
                \E i \in 1..(j - 1) :
                    /\ last.cmds[i] = Cmd("select", last.cmds[j].f, 0, TRUE)
                    /\ \A k \in (i + 1)..(j - 1) : last.cmds[k].c # "select"

\* a scan in which the SELECT of one folder was refused and a later folder
\* was searched and fetched from
C16_Witness ==
    /\ Scanned
    /\ \E i, j \in 1..Len(last.cmds) :
          /\ i < j
          /\ last.cmds[i].c = "select" /\ ~last.cmds[i].ok
          /\ last.cmds[j].c = "fetch" /\ last.cmds[j].ok

\* the position of a folder name in the list of lines 259-260
FolderIndex(f) == CHOOSE i \in 1..Len(AllFolders) : AllFolders[i] = f

\* C17: a scan that passed its preconditions sends one SELECT per folder of
\* the list, in list order; the commands of a folder all come after its
\* SELECT and before the SELECT of the next folder; and the result lists the
\* documents in the order the folders were visited and the messages fetched.
C17_FoldersInListOrder ==
    ScanRan =>
        /\ Len(Selects) = NumFolders
        /\ \A i \in 1..NumFolders : Selects[i].f = AllFolders[i]
        /\ \A j, k \in 1..Len(last.cmds) :
              j < k =>
                  /\ FolderIndex(last.cmds[j].f) <= FolderIndex(last.cmds[k].f)
                  /\ last.cmds[k].c = "select" =>
                        FolderIndex(last.cmds[j].f) < FolderIndex(last.cmds[k].f)
        /\ \A j, k \in 1..Len(last.soups) :
              j < k =>
                  \/ FolderIndex(last.soups[j].folder) < FolderIndex(last.soups[k].folder)
                  \/ /\ last.soups[j].folder = last.soups[k].folder
                     /\ last.soups[j].uid < last.soups[k].uid

\* a scan that returned documents of two folders, with a fetch that failed in
\* the first
C17_Witness ==
    /\ ScanRan
    /\ Len(last.soups) >= 2
    /\ last.soups[1].folder = AllFolders[1]
    /\ last.soups[Len(last.soups)].folder = AllFolders[2]
    /\ \E j \in 1..Len(last.cmds) : last.cmds[j].c = "fetch" /\ ~last.cmds[j].ok

\* the positions in the last scan's commands of the FETCHes of message n of
\* folder f
FetchAttempts(f, n) ==
    { k \in 1..Len(last.cmds) :
        last.cmds[k].c = "fetch" /\ last.cmds[k].f = f /\ last.cmds[k].n = n }

\* C18: a FETCH that fails in a scan is attempted again in the same folder,
\* at most 3 times in all, and the scan neither selects a folder a second
\* time nor starts over.
C18_FailedFetchRetriedInFolder ==
    ScanRan =>
        \A j \in 1..Len(last.cmds) :
            (last.cmds[j].c = "fetch" /\ ~last.cmds[j].ok) =>
                /\ \E k \in FetchAttempts(last.cmds[j].f, last.cmds[j].n) : k > j
                /\ Cardinality(FetchAttempts(last.cmds[j].f, last.cmds[j].n)) <= 3
                /\ Len(Selects) = NumFolders
                /\ last.attempts = 1

\* C19: after a scan, every message the scan fetched carries \Seen, whether
\* the post-filters kept it or not, and every message it did not fetch has
\* the \Seen flag it had before.
C19_FetchedMarkedSeen ==
    Scanned =>
        \A f \in FolderNames : \A n \in 1..Len(Before[f]) :
            /\ Fetched(f, n) => server[f][n].seen
            /\ ~Fetched(f, n) => server[f][n].seen = Before[f][n].seen

\* a scan that fetched an unseen message, left it out of the result, and did
\* not fetch another unseen message of the same folder
C19_Witness ==
    /\ ScanRan
    /\ \E f \in FolderNames : \E n, k \in 1..Len(Before[f]) :
          /\ Fetched(f, n) /\ ~Returned(f, n)
          /\ ~Before[f][n].seen /\ server[f][n].seen
          /\ ~Fetched(f, k) /\ ~Before[f][k].seen /\ ~server[f][k].seen

\* C20: no call on the client changes the ProxyConfig it was given: the type
\* field keeps the caller's string.
C20_ProxyConfigNeverMutated ==
    [][ proxy # <<>> => proxy' = proxy ]_vars

\* C21: every proxied session was set up by a TLS handshake that required the
\* server's certificate, so none is established with a server whose
\* certificate is not valid for the host (the client passes no TLS
\* configuration of its own).
C21_ProxiedTlsVerified ==
    /\ \A i \in 1..Len(sessions) :
          sessions[i].proxied => sessions[i].verify_mode = "CERT_REQUIRED"
    /\ (Constructed /\ proxy # <<>> /\ mailbox # NoMailbox) => last.env.cert

\* C22: right after a connect_and_login (by the constructor or by __enter__)
\* login_status is true only if that call returned True, and the session the
\* client holds is then the one that call opened and logged in.
C22_FlagReflectsLastConnect ==
    (last.op \in {"init", "enter"} /\ login_status) =>
        /\ last.ret = "True"
        /\ last.connected /\ last.login = "ok" /\ last.inbox = "true"
        /\ mailbox = Len(sessions)
        /\ sessions[mailbox].auth /\ sessions[mailbox].selected = "INBOX"

====
